---- MODULE Spec2Model ----
(***************************************************************************)
(* IdeaShelf (src/IdeaShelf.py): a Streamlit script over an SQLite store   *)
(* of books and reviews.                                                   *)
(*                                                                         *)
(* A text is a sequence of one-character strings.  A Hangul syllable is    *)
(* written as the token "uXXXX" of its code point, so that equality,       *)
(* strip() and LIKE act on texts exactly as on the program's strings.      *)
(***************************************************************************)
EXTENDS Integers, Sequences, FiniteSets, TLC

VARIABLES
    books,            \* rows of table books: [id, title, author, genre]
    books_seq,        \* sqlite_sequence of books (AUTOINCREMENT high-water mark)
    reviews,          \* rows of table reviews
    reviews_seq,      \* sqlite_sequence of reviews
    clock,            \* datetime.now(), in ticks of 1/TicksPerSecond second
    clock_monotone,   \* history: the clock has never gone backwards
    page,             \* st.session_state.page
    current_book_id,  \* st.session_state.current_book_id (0 is None)
    selected_genre,   \* st.session_state.selected_genre (None when the key is absent)
    search_q,         \* value held by the sidebar search text_input
    genre_sel,        \* value held by the sidebar genre selectbox
    screen,           \* the buttons and forms the last script run put on screen
    last,             \* history: the last operation, its arguments and its result
    pre,              \* history: store and session just before the last operation
    calls,            \* history: every direct add_book or add_review call so far
    runs,             \* history: the script runs of the last interaction
    steps             \* number of operations so far

vars == <<books, books_seq, reviews, reviews_seq, clock, clock_monotone, page,
          current_book_id, selected_genre, search_q, genre_sel, screen, last,
          pre, calls, runs, steps>>

store_vars == <<books, books_seq, reviews, reviews_seq>>
session_vars == <<page, current_book_id, selected_genre>>
widget_vars == <<search_q, genre_sel, screen, runs>>

-----------------------------------------------------------------------------
(* Bounds of the model.                                                    *)

MaxBookCalls == 3     \* direct calls of the book functions in SpecBooks
MaxReviews == 3       \* direct calls of add_review in SpecReviews
MaxClock == 3         \* the clock ranges over 0..MaxClock ticks
TicksPerSecond == 2   \* clock ticks in one second of created_at
MaxRuns == 4          \* user interactions in Spec

-----------------------------------------------------------------------------
(* Python values.                                                          *)

\* None where a text is expected: no text equals it, texts being sequences
\* of one-character strings.
None == <<"None">>

\* bool(v) of a text or None: None and "" are falsy.
Truthy(v) == v # None /\ v # <<>>

\* The characters str.strip() removes.
WhiteSpace == {" ", "\t", "\n"}

RECURSIVE lstrip(_)
lstrip(s) ==
    IF s # <<>> /\ Head(s) \in WhiteSpace THEN lstrip(Tail(s)) ELSE s

RECURSIVE rstrip(_)
rstrip(s) ==
    IF s # <<>> /\ s[Len(s)] \in WhiteSpace
    THEN rstrip(SubSeq(s, 1, Len(s) - 1))
    ELSE s

\* str.strip()
strip(s) == rstrip(lstrip(s))

\* ASCII lower-casing, as SQLite's LIKE folds case (ASCII letters only; the
\* letters listed are those the texts of this model can hold).
Lower(c) ==
    CASE c = "A" -> "a"
      [] c = "B" -> "b"
      [] c = "K" -> "k"
      [] c = "X" -> "x"
      [] OTHER -> c

\* needle occurs in hay, case folded: hay LIKE '%needle%'.
Like(hay, needle) ==
    \E i \in 0..(Len(hay) - Len(needle)) :
        \A j \in 1..Len(needle) : Lower(hay[i + j]) = Lower(needle[j])

-----------------------------------------------------------------------------
(* The store.                                                              *)

\* "익명"
Anonymous == <<"uC775", "uBA85">>

\* "(선택)", the first option of the genre selectbox
NoGenre == <<"(", "uC120", "uD0DD", ")">>

\* The sample rows of seed_books(), in the order they are inserted.
sample ==
    <<
       \* 82년생 김지영 / 조남주 / 소설
       [title |-> <<"8", "2", "uB144", "uC0DD", " ", "uAE40", "uC9C0", "uC601">>,
        author |-> <<"uC870", "uB0A8", "uC8FC">>,
        genre |-> <<"uC18C", "uC124">>],
       \* 채식주의자 / 한강 / 소설
       [title |-> <<"uCC44", "uC2DD", "uC8FC", "uC758", "uC790">>,
        author |-> <<"uD55C", "uAC15">>,
        genre |-> <<"uC18C", "uC124">>],
       \* 소년이 온다 / 한강 / 소설
       [title |-> <<"uC18C", "uB144", "uC774", " ", "uC628", "uB2E4">>,
        author |-> <<"uD55C", "uAC15">>,
        genre |-> <<"uC18C", "uC124">>],
       \* 아몬드 / 손원평 / 소설
       [title |-> <<"uC544", "uBAAC", "uB4DC">>,
        author |-> <<"uC190", "uC6D0", "uD3C9">>,
        genre |-> <<"uC18C", "uC124">>],
       \* 용의자 x의 헌신 / 히가시노 게이고 / 소설
       [title |-> <<"uC6A9", "uC758", "uC790", " ", "x", "uC758", " ", "uD5CC", "uC2E0">>,
        author |-> <<"uD788", "uAC00", "uC2DC", "uB178", " ", "uAC8C", "uC774", "uACE0">>,
        genre |-> <<"uC18C", "uC124">>],
       \* 무례한 사람에게 웃으며 대처하는 법 / 정문정 / 에세이
       [title |-> <<"uBB34", "uB840", "uD55C", " ", "uC0AC", "uB78C", "uC5D0", "uAC8C", " ", "uC6C3", "uC73C", "uBA70", " ", "uB300", "uCC98", "uD558", "uB294", " ", "uBC95">>,
        author |-> <<"uC815", "uBB38", "uC815">>,
        genre |-> <<"uC5D0", "uC138", "uC774">>],
       \* 여덟 단어 / 박웅현 / 에세이
       [title |-> <<"uC5EC", "uB35F", " ", "uB2E8", "uC5B4">>,
        author |-> <<"uBC15", "uC6C5", "uD604">>,
        genre |-> <<"uC5D0", "uC138", "uC774">>],
       \* 아침에 일어나면 꼭 해야 할 일들 / 김민식 / 에세이
       [title |-> <<"uC544", "uCE68", "uC5D0", " ", "uC77C", "uC5B4", "uB098", "uBA74", " ", "uAF2D", " ", "uD574", "uC57C", " ", "uD560", " ", "uC77C", "uB4E4">>,
        author |-> <<"uAE40", "uBBFC", "uC2DD">>,
        genre |-> <<"uC5D0", "uC138", "uC774">>],
       \* 코스모스 / 칼 세이건 / 과학
       [title |-> <<"uCF54", "uC2A4", "uBAA8", "uC2A4">>,
        author |-> <<"uCE7C", " ", "uC138", "uC774", "uAC74">>,
        genre |-> <<"uACFC", "uD559">>],
       \* 빅 히스토리 / 데이비드 크리스천 / 과학
       [title |-> <<"uBE45", " ", "uD788", "uC2A4", "uD1A0", "uB9AC">>,
        author |-> <<"uB370", "uC774", "uBE44", "uB4DC", " ", "uD06C", "uB9AC", "uC2A4", "uCC9C">>,
        genre |-> <<"uACFC", "uD559">>],
       \* 세상은 수학이다 / 최재천·김민형 / 과학
       [title |-> <<"uC138", "uC0C1", "uC740", " ", "uC218", "uD559", "uC774", "uB2E4">>,
        author |-> <<"uCD5C", "uC7AC", "uCC9C", "u00B7", "uAE40", "uBBFC", "uD615">>,
        genre |-> <<"uACFC", "uD559">>],
       \* 역사의 역사 / 유시민 / 역사
       [title |-> <<"uC5ED", "uC0AC", "uC758", " ", "uC5ED", "uC0AC">>,
        author |-> <<"uC720", "uC2DC", "uBBFC">>,
        genre |-> <<"uC5ED", "uC0AC">>],
       \* 거꾸로 읽는 세계사 / 유시민 / 역사
       [title |-> <<"uAC70", "uAFB8", "uB85C", " ", "uC77D", "uB294", " ", "uC138", "uACC4", "uC0AC">>,
        author |-> <<"uC720", "uC2DC", "uBBFC">>,
        genre |-> <<"uC5ED", "uC0AC">>],
       \* 지리의 힘 / 팀 마샬 / 역사
       [title |-> <<"uC9C0", "uB9AC", "uC758", " ", "uD798">>,
        author |-> <<"uD300", " ", "uB9C8", "uC0EC">>,
        genre |-> <<"uC5ED", "uC0AC">>],
       \* 아주 작은 습관의 힘 / 제임스 클리어 / 자기계발
       [title |-> <<"uC544", "uC8FC", " ", "uC791", "uC740", " ", "uC2B5", "uAD00", "uC758", " ", "uD798">>,
        author |-> <<"uC81C", "uC784", "uC2A4", " ", "uD074", "uB9AC", "uC5B4">>,
        genre |-> <<"uC790", "uAE30", "uACC4", "uBC1C">>],
       \* 미라클 모닝 / 할 엘로드 / 자기계발
       [title |-> <<"uBBF8", "uB77C", "uD074", " ", "uBAA8", "uB2DD">>,
        author |-> <<"uD560", " ", "uC5D8", "uB85C", "uB4DC">>,
        genre |-> <<"uC790", "uAE30", "uACC4", "uBC1C">>]
    >>

\* INSERT OR IGNORE INTO books(title, author, genre): the UNIQUE title makes
\* the insert a no-op when the title is taken.  AUTOINCREMENT draws the rowid
\* before the constraint is checked, so an ignored insert uses up an id too.
insert_or_ignore_replace(db, title, author, genre) ==
    LET id == db.seq + 1
    IN  [books |-> {b \in db.books : b.title # title} \cup
                   {[id |-> id, title |-> title, author |-> author, genre |-> genre]},
         seq |-> id]

insert_or_ignore(db, title, author, genre) ==
    LET id == db.seq + 1
    IN  [books |-> IF \E b \in db.books : b.title = title
                   THEN db.books
                   ELSE db.books \cup
                        {[id |-> id, title |-> title, author |-> author, genre |-> genre]},
         seq |-> id]

RECURSIVE seed_from(_, _)
seed_from(db, i) ==
    IF i > Len(sample)
    THEN db
    ELSE seed_from(insert_or_ignore(db, sample[i].title, sample[i].author,
                                    sample[i].genre), i + 1)

\* seed_books(): the sample rows, in order, each INSERT OR IGNORE.
seed_books(db) == seed_from(db, 1)

\* SELECT ... FROM books WHERE title=?: the rows as a sequence, at most one
\* as titles are unique.
titled(bs, title) ==
    IF \E b \in bs : b.title = title
    THEN <<CHOOSE b \in bs : b.title = title>>
    ELSE <<>>

\* get_book(book_id): the row as <<row>>, or <<>> for None.
get_book(bs, book_id) ==
    IF \E b \in bs : b.id = book_id
    THEN <<CHOOSE b \in bs : b.id = book_id>>
    ELSE <<>>

add_book_untrimmed_author(db, title, author, genre) ==
    LET t == strip(title)
        db2 == insert_or_ignore(db, t, IF Truthy(author) THEN author ELSE <<>>,
                                strip(genre))
    IN  [db |-> db2, ret |-> titled(db2.books, t)[1].id]

\* add_book(title, author, genre): insert the trimmed values, then look the
\* id up by the trimmed title.
add_book(db, title, author, genre) ==
    LET t == strip(title)
        db2 == insert_or_ignore(db, t, IF Truthy(author) THEN strip(author) ELSE <<>>,
                                strip(genre))
    IN  [db |-> db2, ret |-> titled(db2.books, t)[1].id]

\* get_genres(): SELECT DISTINCT genre (a set; the ORDER BY only lays it out).
get_genres(bs) == {b.genre : b \in bs}

\* get_books_by_genre(genre)
get_books_by_genre(bs, genre) == {b \in bs : b.genre = genre}

\* search_books(q): title LIKE %q% OR author LIKE %q%
search_books(bs, q) == {b \in bs : Like(b.title, q) \/ Like(b.author, q)}

\* strftime("%Y-%m-%d %H:%M:%S") of the clock, read back by datetime(): the
\* whole second the tick lies in.
created_at_of(now) == now \div TicksPerSecond

\* rating is None (written -1) or an integer; int(rating) if rating else None.
rating_of(rating) == IF rating = -1 \/ rating = 0 THEN -1 ELSE rating

\* add_review(book_id, nickname, rating, content): a plain INSERT; the foreign
\* key is not enforced (no PRAGMA foreign_keys), the content is not checked.
add_review(rdb, book_id, nickname, rating, content, now) ==
    LET id == rdb.seq + 1
    IN  [reviews |-> rdb.reviews \cup
            {[id |-> id,
              book_id |-> book_id,
              nickname |-> IF Truthy(nickname) THEN strip(nickname) ELSE Anonymous,
              rating |-> rating_of(rating),
              content |-> strip(content),
              created_at |-> created_at_of(now)]},
         seq |-> id]

\* ORDER BY datetime(created_at) DESC, id DESC
comes_first(a, b) ==
    a.created_at > b.created_at \/ (a.created_at = b.created_at /\ a.id > b.id)

RECURSIVE order_by(_)
order_by(S) ==
    IF S = {}
    THEN <<>>
    ELSE LET m == CHOOSE r \in S : \A o \in S \ {r} : comes_first(r, o)
         IN  <<m>> \o order_by(S \ {m})

get_reviews_any_book(rs, book_id) == order_by(rs)

\* get_reviews(book_id)
get_reviews(rs, book_id) == order_by({r \in rs : r.book_id = book_id})

-----------------------------------------------------------------------------
(* One run of the script, top to bottom.                                   *)

\* The session before the first run sets page.
NoPage == "(unset)"

\* No button pressed and no form submitted in this run.
NoEvent ==
    [kind |-> "none", id |-> 0, title |-> <<>>, author |-> <<>>, genre |-> <<>>,
     nickname |-> <<>>, rating |-> 0, content |-> <<>>]

\* What a run renders in the main area.
View(view, genre, q, book, list, revs) ==
    [view |-> view, genre |-> genre, q |-> q, book |-> book, list |-> list,
     reviews |-> revs]

Routed(w, view, buttons, back, form, rerun) ==
    [w |-> w, view |-> view, book_buttons |-> buttons, back_button |-> back,
     review_form |-> form, rerun |-> rerun]

\* if "page" not in st.session_state: ...; init_db(); seed_books()
startup(w) ==
    LET db == seed_books([books |-> w.books, seq |-> w.books_seq])
    IN  [w EXCEPT !.page = IF w.page = NoPage THEN "home" ELSE w.page,
                  !.books = db.books,
                  !.books_seq = db.seq]

sidebar_search_only_on_home(w, q, g, ev) ==
    LET w1 == IF Truthy(q) /\ w.page = "home" THEN [w EXCEPT !.page = "search"] ELSE w
        w2 == IF g # NoGenre
              THEN [w1 EXCEPT !.page = "browse", !.selected_genre = g]
              ELSE w1
    IN  IF ev.kind = "add_book_form" /\ Truthy(ev.title) /\ Truthy(ev.genre)
        THEN LET r == add_book([books |-> w2.books, seq |-> w2.books_seq],
                               ev.title, ev.author, ev.genre)
             IN  [w2 EXCEPT !.books = r.db.books,
                            !.books_seq = r.db.seq,
                            !.page = "detail",
                            !.current_book_id = r.ret]
        ELSE w2

\* The sidebar: the search box, the genre selectbox, the add-book form.
sidebar(w, q, g, ev) ==
    LET w1 == IF Truthy(q) THEN [w EXCEPT !.page = "search"] ELSE w
        w2 == IF g # NoGenre
              THEN [w1 EXCEPT !.page = "browse", !.selected_genre = g]
              ELSE w1
    IN  IF ev.kind = "add_book_form" /\ Truthy(ev.title) /\ Truthy(ev.genre)
        THEN LET r == add_book([books |-> w2.books, seq |-> w2.books_seq],
                               ev.title, ev.author, ev.genre)
             IN  [w2 EXCEPT !.books = r.db.books,
                            !.books_seq = r.db.seq,
                            !.page = "detail",
                            !.current_book_id = r.ret]
        ELSE w2

\* book_row(b) for every row of a list: the pressed button, if it is one of
\* the rows, sets the page and the current book.
book_rows(w, rows, ev) ==
    IF ev.kind = "book_button" /\ (\E b \in rows : b.id = ev.id)
    THEN [w EXCEPT !.page = "detail", !.current_book_id = ev.id]
    ELSE w

ids(rows) == {b.id : b \in rows}

render_home(w) ==
    Routed(w, View("home", <<>>, <<>>, 0, {}, <<>>), {}, FALSE, 0, FALSE)

render_browse(w, genre, ev) ==
    LET df == get_books_by_genre(w.books, genre)
    IN  Routed(book_rows(w, df, ev), View("browse", genre, <<>>, 0, ids(df), <<>>),
               ids(df), FALSE, 0, FALSE)

render_search(w, q, ev) ==
    LET df == search_books(w.books, q)
    IN  Routed(book_rows(w, df, ev), View("search", <<>>, q, 0, ids(df), <<>>),
               ids(df), FALSE, 0, FALSE)

\* render_detail(book_id), below the back button.
render_detail(w, book_id, ev, now) ==
    IF get_book(w.books, book_id) = <<>>
    THEN Routed(w, View("not_found", <<>>, <<>>, book_id, {}, <<>>), {}, TRUE, 0, FALSE)
    ELSE IF ev.kind = "review_form" /\ ev.id = book_id /\ strip(ev.content) # <<>>
         THEN LET r == add_review([reviews |-> w.reviews, seq |-> w.reviews_seq],
                                  book_id, ev.nickname, ev.rating, ev.content, now)
              IN  Routed([w EXCEPT !.reviews = r.reviews, !.reviews_seq = r.seq],
                         View("rerun", <<>>, <<>>, book_id, {}, <<>>),
                         {}, TRUE, book_id, TRUE)
         ELSE Routed(w, View("detail", <<>>, <<>>, book_id, {},
                             get_reviews(w.reviews, book_id)),
                     {}, TRUE, book_id, FALSE)

\* page = st.session_state.page; if page == "home": ... else: render_home()
routing(w, q, ev, now) ==
    CASE w.page = "home" -> render_home(w)
      [] w.page = "browse" ->
            render_browse(w, IF Truthy(w.selected_genre) THEN w.selected_genre ELSE <<>>,
                          ev)
      [] w.page = "search" ->
            IF Truthy(q)
            THEN render_search(w, q, ev)
            ELSE Routed(w, View("search_prompt", <<>>, <<>>, 0, {}, <<>>),
                        {}, FALSE, 0, FALSE)
      [] w.page = "detail" ->
            IF w.current_book_id # 0
            THEN IF ev.kind = "back_button"
                 THEN Routed([w EXCEPT !.page = IF Truthy(w.selected_genre)
                                                THEN "browse" ELSE "home"],
                             View("rerun", <<>>, <<>>, w.current_book_id, {}, <<>>),
                             {}, TRUE, 0, TRUE)
                 ELSE render_detail(w, w.current_book_id, ev, now)
            ELSE Routed(w, View("select_first", <<>>, <<>>, 0, {}, <<>>),
                        {}, FALSE, 0, FALSE)
      [] OTHER -> render_home(w)

\* The end of a run: what it leaves in the store and the session (w), what it
\* puts on screen, and what the router read and rendered.  before is the
\* session and store at the top of the script, w1 after seed_books(), w2 after
\* the sidebar, r the router's result.
run_result(before, w1, w2, r, q, g, ev) ==
    [w |-> r.w,
     rerun |-> r.rerun,
     screen |-> [sidebar |-> TRUE,
                 genre_options |-> {NoGenre} \cup get_genres(w1.books),
                 book_buttons |-> r.book_buttons, back_button |-> r.back_button,
                 review_form |-> r.review_form],
     run |-> [search_q |-> q, genre_sel |-> g, event |-> ev.kind,
              page_before |-> before.page,
              form_accepted |-> (ev.kind = "add_book_form" /\ Truthy(ev.title)
                                 /\ Truthy(ev.genre)),
              page_read |-> w2.page,
              view |-> r.view]]

main_area(before, w1, w2, q, g, ev, now) ==
    run_result(before, w1, w2, routing(w2, q, ev, now), q, g, ev)

after_startup(before, w1, q, g, ev, now) ==
    main_area(before, w1, sidebar(w1, q, g, ev), q, g, ev, now)

\* The whole script, top to bottom.
script(w, q, g, ev, now) == after_startup(w, startup(w), q, g, ev, now)

\* The runs of one interaction: r1 is the run it triggers, r2 the run that
\* follows at once when r1 called st.experimental_rerun().
both_runs(r1, r2) ==
    IF r1.rerun
    THEN [w |-> r2.w, screen |-> r2.screen, runs |-> <<r1.run, r2.run>>]
    ELSE [w |-> r1.w, screen |-> r1.screen, runs |-> <<r1.run>>]

rerun_of(r1, q, g, now) == both_runs(r1, script(r1.w, q, g, NoEvent, now))

\* A user interaction with widget values q and g and event ev.
interaction(w, q, g, ev, now) == rerun_of(script(w, q, g, ev, now), q, g, now)

-----------------------------------------------------------------------------
(* Inputs.                                                                 *)

\* "코스모스", a title of the sample
Cosmos == <<"uCF54", "uC2A4", "uBAA8", "uC2A4">>

\* "소설", a genre of the sample
Novel == <<"uC18C", "uC124">>

\* Arguments of direct add_book calls.
BookTitles == {<<"a">>, <<" ", "a">>, <<"b", " ">>, Cosmos}
BookAuthors == {None, <<>>, <<" ", "k">>}
BookGenres == {<<"g">>, <<" ", "h">>}

\* Arguments of direct add_review calls: book 9 is "코스모스" once seeded.
\* <<nickname, rating, content>>: every kind of nickname (omitted, empty,
\* blank, padded), of rating (0, 5) and of content (blank, padded).
ReviewBooks == {1, 9}
ReviewArgs ==
    {<<None, 5, <<"c", " ">>>>,
     <<<<>>, 0, <<" ">>>>,
     <<<<" ">>, 5, <<"\n", "c">>>>,
     <<<<" ", "n">>, 0, <<"c", " ">>>>}

\* What the user types into the widgets: "한" matches two authors and a title.
SearchTerms == {<<>>, <<"uD55C">>}
FormTitles == {<<>>, <<" ">>, <<"a">>}
FormAuthors == {<<>>}
FormGenres == {<<>>, <<" ">>, Novel}
FormNicknames == {<<>>, <<" ">>}
FormRatings == {5}
FormContents == {<<" ">>, <<"c">>}

-----------------------------------------------------------------------------
(* State.                                                                  *)

NoCall ==
    [op |-> "init", id |-> 0, title |-> <<>>, author |-> <<>>, genre |-> <<>>,
     nickname |-> <<>>, rating |-> 0, content |-> <<>>, ret |-> 0]

NoScreen ==
    [sidebar |-> FALSE, genre_options |-> {}, book_buttons |-> {},
     back_button |-> FALSE, review_form |-> 0]

world ==
    [books |-> books, books_seq |-> books_seq, reviews |-> reviews,
     reviews_seq |-> reviews_seq, page |-> page,
     current_book_id |-> current_book_id, selected_genre |-> selected_genre]

snapshot ==
    [books |-> books, reviews |-> reviews, page |-> page,
     current_book_id |-> current_book_id, selected_genre |-> selected_genre,
     screen |-> screen, last |-> last]

\* Nothing has run: an empty store, an empty session, nothing on screen.
Init ==
    /\ books = {}
    /\ books_seq = 0
    /\ reviews = {}
    /\ reviews_seq = 0
    /\ clock = 0
    /\ clock_monotone = TRUE
    /\ page = NoPage
    /\ current_book_id = 0
    /\ selected_genre = None
    /\ search_q = <<>>
    /\ genre_sel = NoGenre
    /\ screen = NoScreen
    /\ last = NoCall
    /\ pre = [books |-> {}, reviews |-> {}, page |-> NoPage, current_book_id |-> 0,
              selected_genre |-> None, screen |-> NoScreen, last |-> NoCall]
    /\ calls = {}
    /\ runs = <<>>
    /\ steps = 0

\* The store as the first run of the script leaves it: init_db(); seed_books().
InitSeeded ==
    LET db == seed_books([books |-> {}, seq |-> 0])
    IN  /\ books = db.books
        /\ books_seq = db.seq
        /\ reviews = {}
        /\ reviews_seq = 0
        /\ clock = 0
        /\ clock_monotone = TRUE
        /\ page = NoPage
        /\ current_book_id = 0
        /\ selected_genre = None
        /\ search_q = <<>>
        /\ genre_sel = NoGenre
        /\ screen = NoScreen
        /\ last = NoCall
        /\ pre = [books |-> db.books, reviews |-> {}, page |-> NoPage,
                  current_book_id |-> 0, selected_genre |-> None,
                  screen |-> NoScreen, last |-> NoCall]
        /\ calls = {}
        /\ runs = <<>>
        /\ steps = 0

-----------------------------------------------------------------------------
(* Direct calls of the data-access functions.                              *)

AddBook ==
    \E title \in BookTitles, author \in BookAuthors, genre \in BookGenres :
        LET r == add_book([books |-> books, seq |-> books_seq], title, author, genre)
        IN  /\ steps < MaxBookCalls
            /\ books' = r.db.books
            /\ books_seq' = r.db.seq
            /\ last' = [NoCall EXCEPT !.op = "add_book", !.title = title,
                                      !.author = author, !.genre = genre,
                                      !.ret = r.ret]
            /\ calls' = calls \cup {[n |-> steps + 1, title |-> title,
                                     author |-> author, genre |-> genre,
                                     ret |-> r.ret,
                                     prior |-> titled(books, strip(title))]}
            /\ pre' = snapshot
            /\ steps' = steps + 1
            /\ UNCHANGED <<reviews, reviews_seq, clock, clock_monotone>>
            /\ UNCHANGED <<session_vars, search_q, genre_sel, screen, runs>>

SeedBooks ==
    LET db == seed_books([books |-> books, seq |-> books_seq])
    IN  /\ steps < MaxBookCalls
        /\ books' = db.books
        /\ books_seq' = db.seq
        /\ last' = [NoCall EXCEPT !.op = "seed_books"]
        /\ pre' = snapshot
        /\ steps' = steps + 1
        /\ UNCHANGED <<reviews, reviews_seq, clock, clock_monotone, calls>>
        /\ UNCHANGED <<session_vars, search_q, genre_sel, screen, runs>>

AddReview ==
    \E book_id \in ReviewBooks, args \in ReviewArgs :
        LET nickname == args[1]
            rating == args[2]
            content == args[3]
            r == add_review([reviews |-> reviews, seq |-> reviews_seq],
                            book_id, nickname, rating, content, clock)
        IN  /\ steps < MaxReviews
            /\ reviews' = r.reviews
            /\ reviews_seq' = r.seq
            /\ last' = [NoCall EXCEPT !.op = "add_review", !.id = book_id,
                                      !.nickname = nickname, !.rating = rating,
                                      !.content = content, !.ret = r.seq]
            /\ pre' = snapshot
            /\ steps' = steps + 1
            /\ calls' = calls \cup {[n |-> steps + 1, ret |-> r.seq]}
            /\ UNCHANGED <<books, books_seq, clock, clock_monotone>>
            /\ UNCHANGED <<session_vars, search_q, genre_sel, screen, runs>>

\* Time passes; the wall clock may also be set back.
Tick ==
    \E t \in 0..MaxClock :
        /\ t # clock
        /\ clock' = t
        /\ clock_monotone' = (clock_monotone /\ t > clock)
        /\ UNCHANGED <<store_vars, session_vars, search_q, genre_sel, screen>>
        /\ UNCHANGED <<last, pre, calls, runs, steps>>

-----------------------------------------------------------------------------
(* User interactions with the page.                                        *)

\* The interaction with widget values q and g and event ev, recorded as op.
Interact(q, g, ev) ==
    \E r \in {interaction(world, q, g, ev, clock)} :
        /\ steps < MaxRuns
        /\ books' = r.w.books
        /\ books_seq' = r.w.books_seq
        /\ reviews' = r.w.reviews
        /\ reviews_seq' = r.w.reviews_seq
        /\ page' = r.w.page
        /\ current_book_id' = r.w.current_book_id
        /\ selected_genre' = r.w.selected_genre
        /\ search_q' = q
        /\ genre_sel' = g
        /\ screen' = r.screen
        /\ runs' = r.runs
        /\ pre' = snapshot
        /\ steps' = steps + 1
        /\ UNCHANGED <<clock, clock_monotone, calls>>

\* Opening the page, or rerunning it with nothing pressed.
Load ==
    /\ Interact(search_q, genre_sel, NoEvent)
    /\ last' = [NoCall EXCEPT !.op = "load"]

\* Typing into (or clearing) the search box.
SetSearch ==
    \E q \in SearchTerms :
        /\ screen.sidebar
        /\ q # search_q
        /\ Interact(q, genre_sel, NoEvent)
        /\ last' = [NoCall EXCEPT !.op = "set_search", !.title = q]

\* Picking an option of the genre selectbox.
SelectGenre ==
    \E g \in screen.genre_options :
        /\ g # genre_sel
        /\ Interact(search_q, g, NoEvent)
        /\ last' = [NoCall EXCEPT !.op = "select_genre", !.genre = g]

\* Pressing the button of a book row that is on screen.
ClickBook ==
    \E id \in screen.book_buttons :
        /\ Interact(search_q, genre_sel, [NoEvent EXCEPT !.kind = "book_button", !.id = id])
        /\ last' = [NoCall EXCEPT !.op = "click_book", !.id = id]

\* Pressing the back button of the detail page.
ClickBack ==
    /\ screen.back_button
    /\ Interact(search_q, genre_sel, [NoEvent EXCEPT !.kind = "back_button"])
    /\ last' = [NoCall EXCEPT !.op = "click_back"]

\* Submitting the add-book form of the sidebar.
SubmitAddBook ==
    \E title \in FormTitles, author \in FormAuthors, genre \in FormGenres :
        /\ screen.sidebar
        /\ Interact(search_q, genre_sel,
                    [NoEvent EXCEPT !.kind = "add_book_form", !.title = title,
                                    !.author = author, !.genre = genre])
        /\ last' = [NoCall EXCEPT !.op = "add_book_form", !.title = title,
                                  !.author = author, !.genre = genre]

\* Submitting the review form of the detail page that is on screen.
SubmitReview ==
    \E nickname \in FormNicknames, rating \in FormRatings, content \in FormContents :
        /\ screen.review_form # 0
        /\ Interact(search_q, genre_sel,
                    [NoEvent EXCEPT !.kind = "review_form", !.id = screen.review_form,
                                    !.nickname = nickname, !.rating = rating,
                                    !.content = content])
        /\ last' = [NoCall EXCEPT !.op = "review_form", !.id = screen.review_form,
                                  !.nickname = nickname, !.rating = rating,
                                  !.content = content]

-----------------------------------------------------------------------------
(* Specifications.                                                         *)

\* The page, driven by its user.
Next ==
    \/ Load
    \/ SetSearch
    \/ SelectGenre
    \/ ClickBook
    \/ ClickBack
    \/ SubmitAddBook
    \/ SubmitReview

Spec == Init /\ [][Next]_vars

\* The book functions, called directly on a store that starts empty.
NextBooks ==
    \/ AddBook
    \/ SeedBooks

SpecBooks == Init /\ [][NextBooks]_vars

\* add_review, called directly on the seeded store, as time passes.
NextReviews ==
    \/ AddReview
    \/ Tick

SpecReviews == InitSeeded /\ [][NextReviews]_vars

-----------------------------------------------------------------------------
(* Properties.                                                             *)

\* A nickname that is omitted, empty or only whitespace.
Blank(text) == text = None \/ strip(text) = <<>>

Range(seq) == {seq[i] : i \in 1..Len(seq)}

\* C1: add_book with a title that, trimmed, is the title of a book already in
\* the store adds no row and returns that book's id; seed_books and add_book
\* never remove or change a row, and no two books ever share a title.
C1_DuplicateTitleAddsNoRow ==
    /\ \A a, b \in books : a.title = b.title => a = b
    /\ pre.books \subseteq books
    /\ (last.op = "add_book" /\ \E b \in pre.books : b.title = strip(last.title))
       => /\ books = pre.books
          /\ Cardinality(books) = Cardinality(pre.books)
          /\ \E b \in pre.books : b.title = strip(last.title) /\ b.id = last.ret

\* A duplicate add_book was made: the title given is padded, a book with the
\* trimmed title was there, with another author than the one given.
C1_Witness ==
    /\ last.op = "add_book"
    /\ last.title # strip(last.title)
    /\ \E b \in pre.books :
          /\ b.title = strip(last.title)
          /\ b.author # (IF Truthy(last.author) THEN strip(last.author) ELSE <<>>)
    /\ Cardinality(books) > 1

\* C2 as stated: get_book(id), at any later time, returns the title, author
\* and genre given to the call (the empty string for an omitted author).
C2_ReturnsWhatWasGiven ==
    \A c \in calls :
        get_book(books, c.ret) =
            <<[id |-> c.ret, title |-> c.title,
               author |-> IF c.author = None THEN <<>> ELSE c.author,
               genre |-> c.genre]>>

\* C2 amended: get_book(id), at any later time, returns the title trimmed;
\* when no book had that title before the call, the author and genre given,
\* trimmed (the empty string when the author was omitted or empty); when one
\* had, that book's author and genre as they were.
C2_ReturnsStoredRow ==
    \A c \in calls :
        LET got == get_book(books, c.ret)
        IN  /\ Len(got) = 1
            /\ got[1].title = strip(c.title)
            /\ c.prior = <<>> =>
                  /\ got[1].author = (IF c.author = None \/ c.author = <<>>
                                      THEN <<>> ELSE strip(c.author))
                  /\ got[1].genre = strip(c.genre)
            /\ c.prior # <<>> => got = c.prior

\* Two calls gave the same title with different authors and genres, an
\* omitted author was stored, and another call was made after them.
C2_Witness ==
    /\ \E c \in calls :
          /\ c.prior # <<>>
          /\ c.prior[1].genre # strip(c.genre)
          /\ c.author # None
          /\ c.prior[1].author # strip(c.author)
          /\ c.n < steps
    /\ \E c \in calls : c.prior = <<>> /\ c.author = None

\* C3: a review whose content is empty after trimming is rejected: the
\* reviews are unchanged by the call, and no listing holds such a review.
C3_BlankContentRejected ==
    /\ (last.op = "add_review" /\ strip(last.content) = <<>>)
       => reviews = pre.reviews
    /\ \A b \in ReviewBooks :
          \A r \in Range(get_reviews(reviews, b)) : strip(r.content) # <<>>

\* C4: pressing the button of a book row that is on screen leaves the session
\* on page detail with that book current, and the next run of the script,
\* the widgets untouched, renders the detail page of that book.
C4_SelectedBookIsShown ==
    /\ last.op = "click_book"
       => page = "detail" /\ current_book_id = last.id
    /\ (last.op = "load" /\ pre.last.op = "click_book")
       => /\ runs[1].page_read = "detail"
          /\ runs[1].view.view = "detail"
          /\ runs[1].view.book = pre.last.id

\* What the search page shows for term q.
SearchView(q) == View("search", <<>>, q, 0, {b.id : b \in search_books(books, q)}, <<>>)

C6_BackGoesToBrowseOrHome ==
    last.op = "click_back"
    => LET target == IF selected_genre # None THEN "browse" ELSE "home"
           shown == runs[Len(runs)].view
       IN  /\ page = target
           /\ shown.view = target
           /\ target = "browse" => shown.genre = selected_genre

\* C7: a review added with a blank nickname is stored, and listed, with the
\* nickname "익명"; one added with another nickname, with it trimmed.
C7_BlankNicknameIsAnonymous ==
    last.op = "add_review"
    => \E r \in Range(get_reviews(reviews, last.id)) :
          /\ r.id = last.ret
          /\ r.nickname = IF Blank(last.nickname)
                          THEN Anonymous
                          ELSE strip(last.nickname)

\* The call that added review id.
CallOf(id) == CHOOSE c \in calls : c.ret = id

\* C9: get_reviews(b) lists exactly the reviews of book b, newest first and,
\* within one second, highest id first; when the clock never went backwards
\* that is the reverse of the order in which they were added.
C9_ReviewsOfBookNewestFirst ==
    \A b \in ReviewBooks \cup {0} :
        LET listed == get_reviews(reviews, b)
        IN  /\ Range(listed) = {r \in reviews : r.book_id = b}
            /\ Len(listed) = Cardinality({r \in reviews : r.book_id = b})
            /\ \A i, j \in 1..Len(listed) :
                  i < j => \/ listed[i].created_at > listed[j].created_at
                           \/ /\ listed[i].created_at = listed[j].created_at
                              /\ listed[i].id > listed[j].id
            /\ clock_monotone
               => \A i, j \in 1..Len(listed) :
                     i < j => CallOf(listed[i].id).n > CallOf(listed[j].id).n

\* Under a clock that never went backwards a book has two reviews of the
\* same second and one of a later second, and another book has a review.
C9_Witness ==
    /\ clock_monotone
    /\ \E b \in ReviewBooks :
          /\ \E r \in reviews : r.book_id # b
          /\ \E r1, r2 \in reviews :
                /\ r1.book_id = b /\ r2.book_id = b
                /\ r1 # r2 /\ r1.created_at = r2.created_at

\* C10: an add-book submission whose title or genre is empty, or blank after
\* trimming, changes neither the books nor the current book; so every book
\* has a non-empty title and a non-empty genre.
C10_BlankFieldsDiscarded ==
    /\ (/\ last.op = "add_book_form"
        /\ (strip(last.title) = <<>> \/ strip(last.genre) = <<>>))
       => /\ books = pre.books
          /\ current_book_id = pre.current_book_id
    /\ \A b \in books : b.title # <<>> /\ b.genre # <<>>

====
